---- MODULE Spec2Model ----
(***************************************************************************)
(* CIEBII container format: checksum, chunk, header and container codec.   *)
(*                                                                         *)
(* u8 and u16 values are integers.  usize (64 bit) and u32 values are      *)
(* written as their big-endian base-256 numerals (8 and 4 digits): they    *)
(* exceed the integer range of the model checker, and the code only        *)
(* compares them, multiplies them and lays them out big-endian.            *)
(***************************************************************************)
EXTENDS Integers, Sequences, FiniteSets, TLC

\* ------------------------------------------------------------------ bounds
\* longest chunk vector a container is grown to
MaxChunks == 3
\* longest byte string handed to checksum on its own
MaxData == 3

\* ------------------------------------------------------------ input sets
\* colour components used for the chunks of a container
Palette == { <<171, 205, 239>>, <<255, 0, 0>> }
\* what is added (mod 256) to the byte at a damaged buffer position
TamperVals == {1}
\* byte values of the strings handed to checksum on its own
DataVals == {0, 1, 18, 171, 205, 239, 255}
\* colour components of the chunks whose encoding is corrupted
ColorVals == {0, 1, 171, 255}
Byte == 0..255

\* ----------------------------------------------------- machine arithmetic
RECURSIVE XorBits(_, _)
\* bitwise exclusive or of two naturals, bit by bit
XorBits(a, b) ==
    IF a = 0 THEN b
    ELSE IF b = 0 THEN a
    ELSE (((a % 2) + (b % 2)) % 2) + 2 * XorBits(a \div 2, b \div 2)

\* the exclusive or of every pair of u8 values
XorTable == [ a \in Byte |-> [ b \in Byte |-> XorBits(a, b) ] ]

\* b ^ prev on u8 (checksum.rs:9)
Xor(a, b) == XorTable[a][b]

\* total >> 8 truncated to u8: the high byte of the accumulator
Shr8AsU8(total) == (total \div 256) % 256

\* (total << 8) as u8 : the u16 is shifted inside 16 bits, then truncated
Shl8AsU8(total) == ((total * 256) % 65536) % 256

RECURSIVE checksum_from(_, _, _, _)
\* the for_each closure of checksum, applied from byte i on
checksum_from(data, i, total, prev) ==
    IF i > Len(data) THEN total
    ELSE LET new_byte == Xor(data[i], prev)
             t == (total + new_byte) % 65536
             p == (new_byte - Shl8AsU8(t)) % 256
         IN checksum_from(data, i + 1, t, p)

\* checksum started with prev = 0 instead of 0xAB
checksum_prev0(data) == checksum_from(data, 1, 0, 0)

\* pub fn checksum(data: &[u8]) -> u16
checksum(data) == checksum_from(data, 1, 0, 171)

\* u16::to_be_bytes
u16_to_be_bytes(n) == << n \div 256, n % 256 >>

\* checksum(..) as u32, as a 4-digit numeral
u16_as_u32(n) == << 0, 0, n \div 256, n % 256 >>

RECURSIVE usize_from(_, _)
\* the w low base-256 digits of n, most significant first
usize_from(n, w) ==
    IF w = 0 THEN << >> ELSE Append(usize_from(n \div 256, w - 1), n % 256)

\* a small count (Vec::len) as usize
usize(n) == usize_from(n, 8)

\* digit i of a numeral, counted from the least significant one (i = 0)
Digit(a, i) == a[Len(a) - i]

RECURSIVE ColumnSum(_, _, _, _)
\* sum of a_i * b_j over i + j = k, from i upwards
ColumnSum(a, b, k, i) ==
    IF i > 7 \/ i > k THEN 0
    ELSE (IF k - i <= 7 THEN Digit(a, i) * Digit(b, k - i) ELSE 0)
         + ColumnSum(a, b, k, i + 1)

RECURSIVE MulDigits(_, _, _, _)
\* digits k..15 of the 128-bit product, least significant first
MulDigits(a, b, k, carry) ==
    IF k > 15 THEN << >>
    ELSE LET s == carry + ColumnSum(a, b, k, 0)
         IN << s % 256 >> \o MulDigits(a, b, k + 1, s \div 256)

\* x * y on usize: the product modulo 2^64 and whether it left 64 bits
usize_mul(x, y) ==
    LET p == MulDigits(x, y, 0, 0)
    IN [ value    |-> [i \in 1..8 |-> p[9 - i]],
         overflow |-> \E k \in 9..16 : p[k] # 0 ]

\* ----------------------------------------------------------------- results
Ok(v) == [kind |-> "Ok", val |-> v]
Err(e) == [kind |-> "Err", val |-> e]
Panic == [kind |-> "Panic", val |-> "abort"]
NoResult == [kind |-> "None", val |-> "none"]

\* -------------------------------------------------------------------- rgb
\* RGB::as_bytes
RGB_as_bytes(rgb) == << rgb[1], rgb[2], rgb[3] >>

\* ------------------------------------------------------------------ chunk
\* Chunk::new
Chunk_new(r, g, b) ==
    LET rgb == << r, g, b >>
    IN [ rgb |-> rgb, checksum |-> checksum(RGB_as_bytes(rgb)) ]

\* Chunk::as_bytes
Chunk_as_bytes(chunk) ==
    RGB_as_bytes(chunk.rgb) \o u16_to_be_bytes(chunk.checksum)

\* Chunk::try_from that reads the stored checksum low byte first
Chunk_try_from_le(bytes) ==
    IF Len(bytes) # 5 THEN Err("InvalidLen")
    ELSE LET rgb == SubSeq(bytes, 1, 3)
             check == SubSeq(bytes, 4, 5)
             new_checksum == checksum(rgb)
             original_checksum == check[2] * 256 + check[1]
         IN IF original_checksum # new_checksum THEN Err("ChecksumFail")
            ELSE Ok([ rgb |-> << rgb[1], rgb[2], rgb[3] >>,
                      checksum |-> new_checksum ])

\* Chunk::try_from that does not compare the checksums
Chunk_try_from_nocheck(bytes) ==
    IF Len(bytes) # 5 THEN Err("InvalidLen")
    ELSE Ok([ rgb |-> SubSeq(bytes, 1, 3),
              checksum |-> checksum(SubSeq(bytes, 1, 3)) ])

\* impl TryFrom<&[u8]> for Chunk
Chunk_try_from(bytes) ==
    IF Len(bytes) # 5 THEN Err("InvalidLen")
    ELSE LET rgb == SubSeq(bytes, 1, 3)
             check == SubSeq(bytes, 4, 5)
             new_checksum == checksum(rgb)
             original_checksum == check[1] * 256 + check[2]
         IN IF original_checksum # new_checksum THEN Err("ChecksumFail")
            ELSE Ok([ rgb |-> << rgb[1], rgb[2], rgb[3] >>,
                      checksum |-> new_checksum ])

\* ----------------------------------------------------------------- header
\* CIEBIIFILE::MAGIC_BYTES, spelling "CIEBIIFILE"
MAGIC_BYTES == << 67, 73, 69, 66, 73, 73, 70, 73, 76, 69 >>

\* Header::new
Header_new(x, y) ==
    LET bytes == x \o y
    IN [ x |-> x, y |-> y, checksum |-> u16_as_u32(checksum(bytes)) ]

\* Header::dimensions
Header_dimensions(header) == << header.x, header.y >>

\* Header::as_bytes that writes the height before the width
Header_as_bytes_swapped(header) ==
    MAGIC_BYTES \o header.y \o header.x \o header.checksum

\* Header::as_bytes
Header_as_bytes(header) ==
    MAGIC_BYTES \o header.x \o header.y \o header.checksum

\* Header::try_from that compares the checksums before the magic bytes
Header_try_from_checksum_first(bytes) ==
    IF Len(bytes) # 30 THEN Err("InvalidLen")
    ELSE LET x == SubSeq(bytes, 11, 18)
             y == SubSeq(bytes, 19, 26)
             old_checksum == SubSeq(bytes, 27, 30)
             new_checksum == u16_as_u32(checksum(x \o y))
         IN IF old_checksum # new_checksum THEN Err("ChecksumFail")
            ELSE IF SubSeq(bytes, 1, 10) # MAGIC_BYTES THEN Err("IllegalHeader")
            ELSE Ok([ x |-> x, y |-> y, checksum |-> new_checksum ])

\* Header::try_from that does not compare the checksums
Header_try_from_nocheck(bytes) ==
    IF Len(bytes) # 30 THEN Err("InvalidLen")
    ELSE IF SubSeq(bytes, 1, 10) # MAGIC_BYTES THEN Err("IllegalHeader")
    ELSE Ok([ x |-> SubSeq(bytes, 11, 18), y |-> SubSeq(bytes, 19, 26),
              checksum |-> u16_as_u32(checksum(SubSeq(bytes, 11, 26))) ])

\* impl TryFrom<Vec<u8>> for Header
Header_try_from(bytes) ==
    IF Len(bytes) # 30 THEN Err("InvalidLen")
    ELSE IF SubSeq(bytes, 1, 10) # MAGIC_BYTES THEN Err("IllegalHeader")
    ELSE LET x == SubSeq(bytes, 11, 18)
             y == SubSeq(bytes, 19, 26)
             old_checksum == SubSeq(bytes, 27, 30)
             new_checksum == u16_as_u32(checksum(x \o y))
         IN IF old_checksum # new_checksum THEN Err("ChecksumFail")
            ELSE Ok([ x |-> x, y |-> y, checksum |-> new_checksum ])

\* -------------------------------------------------------------- container
RECURSIVE flat_map_as_bytes(_)
\* chunks.iter().flat_map(|chunk| chunk.as_bytes()).collect()
flat_map_as_bytes(chunks) ==
    IF chunks = << >> THEN << >>
    ELSE Chunk_as_bytes(Head(chunks)) \o flat_map_as_bytes(Tail(chunks))

\* CIEBIIFILE::new
CIEBIIFILE_new(x, y) ==
    [ chunks |-> << >>, bytes |-> << >>, header |-> Header_new(x, y) ]

\* CIEBIIFILE::dimensions
dimensions(f) == Header_dimensions(f.header)

\* CIEBIIFILE::as_bytes
as_bytes(f) == Header_as_bytes(f.header) \o f.bytes

\* push_chunk that leaves the cached payload as it was
push_chunk_stale(f, chunk) ==
    [ f EXCEPT !.chunks = Append(f.chunks, chunk) ]

\* push_chunk that puts the chunk and its bytes in front
push_chunk_front(f, chunk) ==
    [ f EXCEPT !.chunks = << chunk >> \o f.chunks,
               !.bytes = Chunk_as_bytes(chunk) \o f.bytes ]

\* CIEBIIFILE::push_chunk
push_chunk(f, chunk) ==
    [ f EXCEPT !.chunks = Append(f.chunks, chunk),
               !.bytes = f.bytes \o Chunk_as_bytes(chunk) ]

\* Vec::remove(index): the elements after index shift left
Vec_remove(v, index) ==
    [ i \in 1..(Len(v) - 1) |-> IF i <= index THEN v[i] ELSE v[i + 1] ]

\* remove_at_index that removes the last chunk whatever the index
remove_at_index_last(f, index) ==
    IF index >= Len(f.chunks)
    THEN [ file |-> f, result |-> Err("NonExistentChunk") ]
    ELSE LET chunks == SubSeq(f.chunks, 1, Len(f.chunks) - 1)
         IN [ file |-> [ f EXCEPT !.chunks = chunks,
                                  !.bytes = flat_map_as_bytes(chunks) ],
              result |-> Ok(f.chunks[Len(f.chunks)]) ]

\* CIEBIIFILE::remove_at_index (index counted from 0): the container left
\* behind and the value returned
remove_at_index(f, index) ==
    IF index >= Len(f.chunks)
    THEN [ file |-> f, result |-> Err("NonExistentChunk") ]
    ELSE LET removed == f.chunks[index + 1]
             chunks == Vec_remove(f.chunks, index)
         IN [ file |-> [ f EXCEPT !.chunks = chunks,
                                  !.bytes = flat_map_as_bytes(chunks) ],
              result |-> Ok(removed) ]

\* modify that overwrites the chunk after the one asked for
modify_next(f, index, new_chunk) ==
    IF index >= Len(f.chunks)
    THEN [ file |-> f, result |-> Err("NonExistentChunk") ]
    ELSE LET at == IF index + 2 <= Len(f.chunks) THEN index + 2 ELSE 1
             chunks == [ f.chunks EXCEPT ![at] = new_chunk ]
         IN [ file |-> [ f EXCEPT !.chunks = chunks,
                                  !.bytes = flat_map_as_bytes(chunks) ],
              result |-> Ok("unit") ]

\* CIEBIIFILE::modify (index counted from 0)
modify(f, index, new_chunk) ==
    IF index >= Len(f.chunks)
    THEN [ file |-> f, result |-> Err("NonExistentChunk") ]
    ELSE LET chunks == [ f.chunks EXCEPT ![index + 1] = new_chunk ]
         IN [ file |-> [ f EXCEPT !.chunks = chunks,
                                  !.bytes = flat_map_as_bytes(chunks) ],
              result |-> Ok("unit") ]

\* slice::chunks(5): consecutive 5-byte groups, the last one may be shorter
slice_chunks(bytes) ==
    [ k \in 1..((Len(bytes) + 4) \div 5) |->
        SubSeq(bytes, 5 * (k - 1) + 1,
               IF 5 * k <= Len(bytes) THEN 5 * k ELSE Len(bytes)) ]

\* Iterator::skip(n)
skip(groups, n) ==
    IF Len(groups) <= n THEN << >> ELSE SubSeq(groups, n + 1, Len(groups))

RECURSIVE decode_chunks(_, _)
\* the for loop of CIEBIIFILE::try_from: every group decoded in order, the
\* first error returned by `?`
decode_chunks(groups, chunks) ==
    IF groups = << >> THEN Ok(chunks)
    ELSE LET c == Chunk_try_from(Head(groups))
         IN IF c.kind = "Err" THEN c
            ELSE decode_chunks(Tail(groups), Append(chunks, c.val))

\* CIEBIIFILE::try_from_chunks.  x * y is a usize product: it aborts the
\* process when it overflows in a build with overflow checks, and wraps
\* modulo 2^64 in a build without them.
try_from_chunks(x, y, chunks, checks) ==
    LET product == usize_mul(x, y)
    IN IF product.overflow /\ checks THEN Panic
       ELSE IF product.value # usize(Len(chunks))
       THEN Err("DimensionMismatch")
       ELSE Ok([ chunks |-> chunks,
                 bytes |-> flat_map_as_bytes(chunks),
                 header |-> Header_new(x, y) ])

\* CIEBIIFILE::try_from that skips 5 groups instead of 6
CIEBIIFILE_try_from_skip5(bytes, checks) ==
    IF Len(bytes) < 30 THEN Panic
    ELSE LET header == Header_try_from(SubSeq(bytes, 1, 30))
         IN IF header.kind = "Err" THEN header
            ELSE LET chunks == decode_chunks(skip(slice_chunks(bytes), 5), << >>)
                 IN IF chunks.kind = "Err" THEN chunks
                    ELSE LET dims == Header_dimensions(header.val)
                             product == usize_mul(dims[1], dims[2])
                         IN IF product.overflow /\ checks THEN Panic
                            ELSE IF usize(Len(chunks.val)) # product.value
                            THEN Err("DimensionMismatch")
                            ELSE Ok([ chunks |-> chunks.val,
                                      bytes |-> SubSeq(bytes, 31, Len(bytes)),
                                      header |-> header.val ])

\* CIEBIIFILE::try_from that keeps the whole buffer as the payload
CIEBIIFILE_try_from_whole(bytes, checks) ==
    IF Len(bytes) < 30 THEN Panic
    ELSE LET header == Header_try_from(SubSeq(bytes, 1, 30))
         IN IF header.kind = "Err" THEN header
            ELSE LET chunks == decode_chunks(skip(slice_chunks(bytes), 6), << >>)
                 IN IF chunks.kind = "Err" THEN chunks
                    ELSE LET dims == Header_dimensions(header.val)
                             product == usize_mul(dims[1], dims[2])
                         IN IF product.overflow /\ checks THEN Panic
                            ELSE IF usize(Len(chunks.val)) # product.value
                            THEN Err("DimensionMismatch")
                            ELSE Ok([ chunks |-> chunks.val,
                                      bytes |-> bytes,
                                      header |-> header.val ])

\* CIEBIIFILE::try_from that decodes the records before the header
CIEBIIFILE_try_from_chunks_first(bytes, checks) ==
    IF Len(bytes) < 30 THEN Panic
    ELSE LET chunks == decode_chunks(skip(slice_chunks(bytes), 6), << >>)
         IN IF chunks.kind = "Err" THEN chunks
            ELSE LET header == Header_try_from(SubSeq(bytes, 1, 30))
                 IN IF header.kind = "Err" THEN header
                    ELSE LET dims == Header_dimensions(header.val)
                             product == usize_mul(dims[1], dims[2])
                         IN IF product.overflow /\ checks THEN Panic
                            ELSE IF usize(Len(chunks.val)) # product.value
                            THEN Err("DimensionMismatch")
                            ELSE Ok([ chunks |-> chunks.val,
                                      bytes |-> SubSeq(bytes, 31, Len(bytes)),
                                      header |-> header.val ])

\* CIEBIIFILE::try_from that does not compare the count with the dimensions
CIEBIIFILE_try_from_any_count(bytes, checks) ==
    IF Len(bytes) < 30 THEN Panic
    ELSE LET header == Header_try_from(SubSeq(bytes, 1, 30))
         IN IF header.kind = "Err" THEN header
            ELSE LET chunks == decode_chunks(skip(slice_chunks(bytes), 6), << >>)
                 IN IF chunks.kind = "Err" THEN chunks
                    ELSE Ok([ chunks |-> chunks.val,
                              bytes |-> SubSeq(bytes, 31, Len(bytes)),
                              header |-> header.val ])

\* impl TryFrom<Vec<u8>> for CIEBIIFILE.  &bytes[0..30] aborts the process
\* for a buffer shorter than 30 bytes.
CIEBIIFILE_try_from(bytes, checks) ==
    IF Len(bytes) < 30 THEN Panic
    ELSE LET header == Header_try_from(SubSeq(bytes, 1, 30))
         IN IF header.kind = "Err" THEN header
            ELSE LET chunks == decode_chunks(skip(slice_chunks(bytes), 6), << >>)
                 IN IF chunks.kind = "Err" THEN chunks
                    ELSE LET dims == Header_dimensions(header.val)
                             product == usize_mul(dims[1], dims[2])
                         IN IF product.overflow /\ checks THEN Panic
                            ELSE IF usize(Len(chunks.val)) # product.value
                            THEN Err("DimensionMismatch")
                            ELSE Ok([ chunks |-> chunks.val,
                                      bytes |-> SubSeq(bytes, 31, Len(bytes)),
                                      header |-> header.val ])

\* ------------------------------------------------------------------ state
VARIABLES
    file,              \* the container the program holds
    pre,               \* the container as it was before the last call
    pc,                \* "start", "live", "written", "failed", "aborted"
    op,                \* the last call made
    args,              \* its arguments
    result,            \* the value it returned
    overflow_checks    \* whether the build checks integer overflow

vars == << file, pre, pc, op, args, result, overflow_checks >>

\* the slot of the container before any has been constructed
NoFile == [ chunks |-> << >>, bytes |-> << >>,
            header |-> [ x |-> usize(0), y |-> usize(0),
                         checksum |-> u16_as_u32(0) ] ]
NoArgs == [ none |-> TRUE ]

\* 2^63 + 1: its product with 2 and with itself leaves 64 bits
WideDims == { << 128, 0, 0, 0, 0, 0, 0, 1 >> }
\* the widths and heights drawn: 0, 1, 2 and the wide one
Dims == { usize(0), usize(1), usize(2) } \cup WideDims

PaletteChunks == { Chunk_new(c[1], c[2], c[3]) : c \in Palette }
ChunkSeqs == UNION { [1..n -> PaletteChunks] : n \in 0..MaxChunks }

\* what a read finds where a buffer was written: the buffer intact, with
\* one byte changed, or cut short; or, when it holds records, with two
\* faults: its last byte changed or cut off, and the first byte of the
\* magic, the last byte of the header or the last byte of the first record
\* changed
Tampered(b) ==
    LET bump(q, p) == [ q EXCEPT ![p] = (q[p] + 1) % 256 ]
        tail == IF Len(b) > 30
                THEN { bump(b, Len(b)), SubSeq(b, 1, Len(b) - 1) }
                ELSE {}
    IN {b} \cup { [b EXCEPT ![p] = (b[p] + v) % 256] : p \in 1..Len(b), v \in TamperVals }
           \cup { SubSeq(b, 1, n) : n \in 0..(Len(b) - 1) }
           \cup { bump(t, p) : t \in tail, p \in { 1, 30, 35 } }

Init ==
    /\ file = NoFile
    /\ pre = NoFile
    /\ pc = "start"
    /\ op = "none"
    /\ args = NoArgs
    /\ result = NoResult
    /\ overflow_checks \in BOOLEAN

\* let file = CIEBIIFILE::new(x, y)
New(x, y) ==
    /\ pc = "start"
    /\ file' = CIEBIIFILE_new(x, y)
    /\ pre' = file'
    /\ pc' = "live"
    /\ op' = "new"
    /\ args' = [ x |-> x, y |-> y ]
    /\ result' = Ok(file')
    /\ UNCHANGED overflow_checks

\* let file = CIEBIIFILE::try_from_chunks(x, y, chunks)?  (convert.rs:40):
\* an error ends the run
TryFromChunks(x, y, chunks) ==
    /\ pc = "start"
    /\ LET r == try_from_chunks(x, y, chunks, overflow_checks)
       IN /\ result' = r
          /\ file' = IF r.kind = "Ok" THEN r.val ELSE file
          /\ pc' = IF r.kind = "Ok" THEN "live"
                   ELSE IF r.kind = "Panic" THEN "aborted" ELSE "failed"
    /\ pre' = file'
    /\ op' = "try_from_chunks"
    /\ args' = [ x |-> x, y |-> y, chunks |-> chunks ]
    /\ UNCHANGED overflow_checks

\* file.push_chunk(chunk)
PushChunk(chunk) ==
    /\ pc = "live"
    /\ Len(file.chunks) < MaxChunks
    /\ file' = push_chunk(file, chunk)
    /\ pre' = file
    /\ op' = "push_chunk"
    /\ args' = [ chunk |-> chunk ]
    /\ result' = Ok("unit")
    /\ UNCHANGED << pc, overflow_checks >>

\* file.remove_at_index(index)
RemoveAtIndex(index) ==
    /\ pc = "live"
    /\ LET r == remove_at_index(file, index)
       IN /\ file' = r.file
          /\ result' = r.result
    /\ pre' = file
    /\ op' = "remove_at_index"
    /\ args' = [ index |-> index ]
    /\ UNCHANGED << pc, overflow_checks >>

\* file.modify(index, new_chunk)
Modify(index, new_chunk) ==
    /\ pc = "live"
    /\ LET r == modify(file, index, new_chunk)
       IN /\ file' = r.file
          /\ result' = r.result
    /\ pre' = file
    /\ op' = "modify"
    /\ args' = [ index |-> index, new_chunk |-> new_chunk ]
    /\ UNCHANGED << pc, overflow_checks >>

\* write_file(path, &file): file.as_bytes() goes to the disk
WriteFile ==
    /\ pc = "live"
    /\ pc' = "written"
    /\ pre' = file
    /\ op' = "write_file"
    /\ args' = NoArgs
    /\ result' = Ok(as_bytes(file))
    /\ UNCHANGED << file, overflow_checks >>

\* file = read_file(path)?: CIEBIIFILE::try_from on the bytes found on the
\* disk; an error ends the run
ReadFile ==
    /\ pc = "written"
    /\ \E bytes \in Tampered(result.val) :
          LET r == CIEBIIFILE_try_from(bytes, overflow_checks)
          IN /\ result' = r
             /\ file' = IF r.kind = "Ok" THEN r.val ELSE file
             /\ pc' = IF r.kind = "Ok" THEN "live"
                      ELSE IF r.kind = "Panic" THEN "aborted" ELSE "failed"
             /\ args' = [ bytes |-> bytes ]
    /\ pre' = file
    /\ op' = "try_from"
    /\ UNCHANGED overflow_checks

Next ==
    \/ \E x \in Dims, y \in Dims : New(x, y)
    \/ \E x \in Dims, y \in Dims, chunks \in ChunkSeqs : TryFromChunks(x, y, chunks)
    \/ \E chunk \in PaletteChunks : PushChunk(chunk)
    \/ \E index \in 0..MaxChunks : RemoveAtIndex(index)
    \/ \E index \in 0..MaxChunks, chunk \in PaletteChunks : Modify(index, chunk)
    \/ WriteFile
    \/ ReadFile

Spec == Init /\ [][Next]_vars

TypeOK ==
    /\ pc \in {"start", "live", "written", "failed", "aborted", "pure"}
    /\ result.kind \in {"Ok", "Err", "Panic", "None"}
    /\ overflow_checks \in BOOLEAN

\* ------------------------------------------------- checksum, on its own
DataSeqs == UNION { [1..n -> DataVals] : n \in 0..MaxData }

InitChecksum ==
    /\ file = NoFile
    /\ pre = NoFile
    /\ pc = "pure"
    /\ op = "none"
    /\ args \in { [ data |-> d ] : d \in DataSeqs }
    /\ result = NoResult
    /\ overflow_checks = FALSE

\* checksum(&data)
Checksum ==
    /\ pc = "pure"
    /\ op = "none"
    /\ op' = "checksum"
    /\ result' = Ok(checksum(args.data))
    /\ UNCHANGED << file, pre, pc, args, overflow_checks >>

NextChecksum == Checksum

SpecChecksum == InitChecksum /\ [][NextChecksum]_vars

\* ---------------------------------------------------- chunk, on its own
\* buffers given to Chunk::try_from, made from the encoding b of a chunk:
\* b itself, every shorter prefix, b with one byte more, b with one of the
\* two checksum bytes changed, and b with the two checksum bytes exchanged
ChunkBuffers(b) ==
    {b} \cup { SubSeq(b, 1, n) : n \in 0..(Len(b) - 1) }
        \cup { b \o << 0 >> }
        \cup { [ b EXCEPT ![p] = (b[p] + 1) % 256 ] : p \in 4..5 }
        \cup { << b[1], b[2], b[3], b[5], b[4] >> }

InitChunk ==
    /\ file = NoFile
    /\ pre = NoFile
    /\ pc = "pure"
    /\ op = "none"
    /\ args \in { [ r |-> r, g |-> g, b |-> b ] :
                    r \in ColorVals, g \in ColorVals, b \in ColorVals }
    /\ result = NoResult
    /\ overflow_checks = FALSE

\* Chunk::new(r, g, b)
ChunkNew ==
    /\ pc = "pure"
    /\ op = "none"
    /\ op' = "Chunk::new"
    /\ result' = Ok(Chunk_new(args.r, args.g, args.b))
    /\ UNCHANGED << file, pre, pc, args, overflow_checks >>

\* Chunk::try_from on chunk.as_bytes() with the byte at offset pos set to v
ChunkCorrupt(pos, v) ==
    /\ pc = "pure"
    /\ op = "Chunk::new"
    /\ op' = "Chunk::try_from"
    /\ LET bytes == [ Chunk_as_bytes(result.val) EXCEPT ![pos + 1] = v ]
       IN /\ args' = [ chunk |-> result.val, pos |-> pos, bytes |-> bytes ]
          /\ result' = Chunk_try_from(bytes)
    /\ UNCHANGED << file, pre, pc, overflow_checks >>

\* Chunk::try_from on one of the buffers made from chunk.as_bytes()
ChunkTryFrom ==
    /\ pc = "pure"
    /\ op = "Chunk::new"
    /\ op' = "Chunk::try_from(buffer)"
    /\ \E bytes \in ChunkBuffers(Chunk_as_bytes(result.val)) :
          /\ args' = [ chunk |-> result.val, bytes |-> bytes ]
          /\ result' = Chunk_try_from(bytes)
    /\ UNCHANGED << file, pre, pc, overflow_checks >>

NextChunk ==
    \/ ChunkNew
    \/ \E pos \in 0..2, v \in Byte : ChunkCorrupt(pos, v)
    \/ ChunkTryFrom

SpecChunk == InitChunk /\ [][NextChunk]_vars

\* --------------------------------------------------- header, on its own
\* the dimensions of the headers tried: every pair of Dims, and the 20 x 20
\* of test_checksum (header.rs:120-128)
HeaderDims == (Dims \X Dims) \cup { << usize(20), usize(20) >> }

\* buffers given to Header::try_from, made from the encoding b of a header:
\* b itself, every shorter prefix, b with one byte more, b with one byte
\* of the magic or of the stored checksum changed, b with a byte of the
\* magic and a later byte changed, and a short or long buffer whose magic
\* is changed as well
HeaderBuffers(b) ==
    LET bump(q, p) == [ q EXCEPT ![p] = (q[p] + 1) % 256 ]
        badmagic == { bump(b, p) : p \in 1..10 }
    IN {b} \cup { SubSeq(b, 1, n) : n \in 0..(Len(b) - 1) }
           \cup { b \o << 0 >> }
           \cup badmagic
           \cup { bump(b, p) : p \in 27..30 }
           \cup { bump(m, p) : m \in badmagic, p \in 11..30 }
           \cup { SubSeq(m, 1, 29) : m \in badmagic }
           \cup { m \o << 0 >> : m \in badmagic }

InitHeader ==
    /\ file = NoFile
    /\ pre = NoFile
    /\ pc = "pure"
    /\ op = "none"
    /\ args \in { [ x |-> d[1], y |-> d[2] ] : d \in HeaderDims }
    /\ result = NoResult
    /\ overflow_checks = FALSE

\* Header::new(x, y)
HeaderNew ==
    /\ pc = "pure"
    /\ op = "none"
    /\ op' = "Header::new"
    /\ result' = Ok(Header_new(args.x, args.y))
    /\ UNCHANGED << file, pre, pc, args, overflow_checks >>

\* Header::try_from on header.as_bytes() with the byte at offset pos set to v
HeaderCorrupt(pos, v) ==
    /\ pc = "pure"
    /\ op = "Header::new"
    /\ op' = "Header::try_from"
    /\ LET bytes == [ Header_as_bytes(result.val) EXCEPT ![pos + 1] = v ]
       IN /\ args' = [ header |-> result.val, pos |-> pos, bytes |-> bytes ]
          /\ result' = Header_try_from(bytes)
    /\ UNCHANGED << file, pre, pc, overflow_checks >>

\* Header::try_from on one of the buffers made from header.as_bytes()
HeaderTryFrom ==
    /\ pc = "pure"
    /\ op = "Header::new"
    /\ op' = "Header::try_from(buffer)"
    /\ \E bytes \in HeaderBuffers(Header_as_bytes(result.val)) :
          /\ args' = [ header |-> result.val, bytes |-> bytes ]
          /\ result' = Header_try_from(bytes)
    /\ UNCHANGED << file, pre, pc, overflow_checks >>

NextHeader ==
    \/ HeaderNew
    \/ \E pos \in 10..25, v \in Byte : HeaderCorrupt(pos, v)
    \/ HeaderTryFrom

SpecHeader == InitHeader /\ [][NextHeader]_vars

\* ================================================================ claims

\* C8 as stated: checksum([0xAB, 0xCD, 0xEF]) is 252.
C8_Original ==
    (op = "checksum" /\ args.data = << 171, 205, 239 >>) => result = Ok(252)

\* C8, amended: checksum([0xAB, 0xCD, 0xEF]) is 239, the value the checksum
\* bytes [0, 239] of the chunk [171, 205, 239, 0, 239] carry.
C8_Checksum_ABCDEF ==
    (op = "checksum" /\ args.data = << 171, 205, 239 >>) => result = Ok(239)

C8_Witness ==
    op = "checksum" /\ args.data = << 171, 205, 239 >> /\ result.kind = "Ok"

RECURSIVE RecurrenceHigh(_, _, _, _)
\* the recurrence with previous = new_byte - high byte of the accumulator
RecurrenceHigh(data, i, accumulator, previous) ==
    IF i > Len(data) THEN accumulator
    ELSE LET new_byte == Xor(data[i], previous)
             acc == (accumulator + new_byte) % 65536
         IN RecurrenceHigh(data, i + 1, acc, (new_byte - Shr8AsU8(acc)) % 256)

RECURSIVE RecurrencePlain(_, _, _, _)
\* the recurrence with previous = new_byte
RecurrencePlain(data, i, accumulator, previous) ==
    IF i > Len(data) THEN accumulator
    ELSE LET new_byte == Xor(data[i], previous)
         IN RecurrencePlain(data, i + 1, (accumulator + new_byte) % 65536, new_byte)

C3_Intact == Chunk_as_bytes(args.chunk)

\* a colour byte of the encoding was replaced by a different value
C3_Damaged ==
    /\ op = "Chunk::try_from"
    /\ args.bytes[args.pos + 1] # C3_Intact[args.pos + 1]

\* C3 as stated: replacing any one colour byte of a chunk's encoding by a
\* different value, the checksum bytes untouched, makes Chunk::try_from fail
\* with ChecksumFail.
C3_Original ==
    C3_Damaged => result = Err("ChecksumFail")

\* C3, amended: replacing the first or the third colour byte by a different
\* value makes Chunk::try_from fail with ChecksumFail; replacing the second
\* one does so unless the damaged colour bytes have the checksum of the
\* intact ones, and then the decode succeeds with the damaged colour.
C3_ColorByteDamage ==
    C3_Damaged =>
        IF args.pos \in {0, 2} THEN result = Err("ChecksumFail")
        ELSE \/ result = Err("ChecksumFail")
             \/ /\ result.kind = "Ok"
                /\ result.val.rgb = SubSeq(args.bytes, 1, 3)
                /\ result.val.rgb # args.chunk.rgb
                /\ result.val.checksum = args.chunk.checksum

C3_Witness ==
    /\ C3_Damaged
    /\ args.pos = 2
    /\ result = Err("ChecksumFail")

\* a damaged second colour byte that the checksum does not notice
C3_WitnessUnnoticed ==
    /\ C3_Damaged
    /\ args.pos = 1
    /\ result.kind = "Ok"

\* the encoding of the header before it was damaged
C4_Intact == Header_as_bytes(args.header)

\* a dimension byte of the encoding was replaced by a different value
C4_Damaged ==
    /\ op = "Header::try_from"
    /\ args.bytes[args.pos + 1] # C4_Intact[args.pos + 1]

C4_WitnessUnnoticed ==
    /\ C4_Damaged
    /\ result.kind = "Ok"

\* width * height is within 64 bits and is the number of chunks
C1_CountIsProduct(f) ==
    LET product == usize_mul(f.header.x, f.header.y)
    IN ~product.overflow /\ product.value = usize(Len(f.chunks))

\* the container is what try_from_chunks returns for its width, height and
\* chunks, the count being width * height
C1_FromChunks(f) ==
    /\ C1_CountIsProduct(f)
    /\ try_from_chunks(f.header.x, f.header.y, f.chunks, overflow_checks) = Ok(f)

\* C1: for C = try_from_chunks(width, height, chunks) with width * height
\* chunks, CIEBIIFILE::try_from(C.as_bytes()) succeeds and returns a container
\* equal to C: same header, same chunks in the same order, same payload.
C1_RoundTrip ==
    (op = "try_from" /\ args.bytes = as_bytes(pre) /\ C1_FromChunks(pre))
        => (result = Ok(pre) /\ file = pre)

C1_Witness ==
    /\ op = "try_from"
    /\ args.bytes = as_bytes(pre)
    /\ C1_FromChunks(pre)
    /\ Len(pre.chunks) = 2
    /\ pre.chunks[1] # pre.chunks[2]
    /\ result = Ok(pre)

\* C2: in every state the cached payload is the concatenation of the 5-byte
\* encodings of the chunks in order, so its length is 5 * chunks.len().
C2_PayloadConsistent ==
    /\ Len(file.bytes) = 5 * Len(file.chunks)
    /\ \A k \in 1..Len(file.chunks) :
          SubSeq(file.bytes, 5 * k - 4, 5 * k) = Chunk_as_bytes(file.chunks[k])

C2_Witness ==
    /\ op = "try_from"
    /\ result.kind = "Ok"
    /\ Len(file.chunks) = 2
    /\ Len(file.bytes) = 10

\* C5 as stated: CIEBIIFILE::try_from on a buffer shorter than 30 bytes, the
\* empty one included, returns InvalidLen.
C5_Original ==
    (op = "try_from" /\ Len(args.bytes) < 30) => result = Err("InvalidLen")

\* C6 as stated: try_from_chunks(x, y, chunks) returns DimensionMismatch
\* exactly when chunks.len() is not x * y; otherwise it returns the container
\* with dimensions (x, y), the given chunks in order, and as_bytes() made of
\* the 30 header bytes for (x, y) and the encodings of the chunks in order.
C6_Original ==
    op = "try_from_chunks" =>
        LET product == usize_mul(args.x, args.y)
            matches == ~product.overflow /\ product.value = usize(Len(args.chunks))
        IN IF ~matches THEN result = Err("DimensionMismatch")
           ELSE /\ result.kind = "Ok"
                /\ dimensions(result.val) = << args.x, args.y >>
                /\ result.val.chunks = args.chunks
                /\ Len(as_bytes(result.val)) = 30 + 5 * Len(args.chunks)
                /\ SubSeq(as_bytes(result.val), 1, 30)
                       = Header_as_bytes(Header_new(args.x, args.y))
                /\ \A k \in 1..Len(args.chunks) :
                      SubSeq(as_bytes(result.val), 30 + 5 * k - 4, 30 + 5 * k)
                          = Chunk_as_bytes(args.chunks[k])

\* the decode got as far as comparing the chunk count with width * height,
\* and that product leaves 64 bits
C7_DecodeOverflows ==
    /\ op = "try_from"
    /\ Len(args.bytes) >= 30
    /\ Header_try_from(SubSeq(args.bytes, 1, 30)).kind = "Ok"
    /\ decode_chunks(skip(slice_chunks(args.bytes), 6), << >>).kind = "Ok"
    /\ LET header == Header_try_from(SubSeq(args.bytes, 1, 30)).val
       IN usize_mul(header.x, header.y).overflow

\* C7 as stated: when width * height exceeds 2^64 - 1, try_from_chunks and
\* the container decode return DimensionMismatch for any chunk count.
C7_Original ==
    /\ (op = "try_from_chunks" /\ usize_mul(args.x, args.y).overflow)
           => result = Err("DimensionMismatch")
    /\ C7_DecodeOverflows => result = Err("DimensionMismatch")

\* C10: remove_at_index(i) on n chunks returns NonExistentChunk and changes
\* nothing if i >= n; otherwise it returns the chunk that was at position i,
\* the chunks are the old ones without position i, in order, the header is
\* unchanged and as_bytes() is the header bytes followed by the encodings of
\* the remaining chunks.
C10_RemoveAtIndex ==
    op = "remove_at_index" =>
        LET i == args.index
            n == Len(pre.chunks)
        IN IF i >= n
           THEN result = Err("NonExistentChunk") /\ file = pre
           ELSE /\ result = Ok(pre.chunks[i + 1])
                /\ Len(file.chunks) = n - 1
                /\ \A k \in 1..(n - 1) :
                      file.chunks[k] = IF k <= i THEN pre.chunks[k]
                                       ELSE pre.chunks[k + 1]
                /\ file.header = pre.header
                /\ Len(as_bytes(file)) = 30 + 5 * (n - 1)
                /\ SubSeq(as_bytes(file), 1, 30) = Header_as_bytes(pre.header)
                /\ \A k \in 1..(n - 1) :
                      SubSeq(as_bytes(file), 30 + 5 * k - 4, 30 + 5 * k)
                          = Chunk_as_bytes(file.chunks[k])

C10_Witness ==
    /\ op = "remove_at_index"
    /\ args.index = 1
    /\ Len(pre.chunks) = 3
    /\ pre.chunks[1] # pre.chunks[2]
    /\ result = Ok(pre.chunks[2])
    /\ file.chunks = << pre.chunks[1], pre.chunks[3] >>

\* remove_at_index with an index past the end
C10_WitnessOutOfRange ==
    /\ op = "remove_at_index"
    /\ args.index >= Len(pre.chunks)
    /\ Len(pre.chunks) > 0
    /\ result = Err("NonExistentChunk")

\* C11: modify(i, c) on n chunks returns NonExistentChunk and changes nothing
\* if i >= n; otherwise it succeeds, position i holds c, every other
\* position, the length and the header are unchanged, and as_bytes() is the
\* header bytes followed by the encodings of the updated chunks.
C11_Modify ==
    op = "modify" =>
        LET i == args.index
            n == Len(pre.chunks)
        IN IF i >= n
           THEN result = Err("NonExistentChunk") /\ file = pre
           ELSE /\ result = Ok("unit")
                /\ Len(file.chunks) = n
                /\ file.chunks[i + 1] = args.new_chunk
                /\ \A k \in 1..n : k # i + 1 => file.chunks[k] = pre.chunks[k]
                /\ file.header = pre.header
                /\ Len(as_bytes(file)) = 30 + 5 * n
                /\ SubSeq(as_bytes(file), 1, 30) = Header_as_bytes(pre.header)
                /\ \A k \in 1..n :
                      SubSeq(as_bytes(file), 30 + 5 * k - 4, 30 + 5 * k)
                          = Chunk_as_bytes(file.chunks[k])

C11_Witness ==
    /\ op = "modify"
    /\ args.index = 1
    /\ Len(pre.chunks) = 3
    /\ pre.chunks[2] # args.new_chunk
    /\ pre.chunks[1] # args.new_chunk
    /\ result = Ok("unit")
    /\ file.chunks = << pre.chunks[1], args.new_chunk, pre.chunks[3] >>

\* modify with an index past the end
C11_WitnessOutOfRange ==
    /\ op = "modify"
    /\ args.index >= Len(pre.chunks)
    /\ Len(pre.chunks) > 0
    /\ result = Err("NonExistentChunk")

\* C12: whenever CIEBIIFILE::try_from(bytes) succeeds with f, f.as_bytes()
\* is bytes.
C12_Canonical ==
    (op = "try_from" /\ result.kind = "Ok") => as_bytes(result.val) = args.bytes

C12_Witness ==
    /\ op = "try_from"
    /\ result.kind = "Ok"
    /\ Len(result.val.chunks) = 2
    /\ Len(args.bytes) = 40

\* a damaged buffer that the decode accepts
C12_WitnessDamaged ==
    /\ op = "try_from"
    /\ result.kind = "Ok"
    /\ args.bytes # as_bytes(pre)

\* the calls of Header::try_from, whatever made their buffer
HeaderDecoded == op \in { "Header::try_from", "Header::try_from(buffer)" }

\* C13: Header::try_from decides in a fixed order, for every input:
\* InvalidLen if the length is not 30; else IllegalHeader if the first 10
\* bytes are not the magic, whatever the checksum; else ChecksumFail if the
\* stored 32-bit big-endian checksum is not checksum(bytes[10..26]); else
\* Ok with width = bytes[10..18] and height = bytes[18..26], big-endian.
C13_Precedence ==
    HeaderDecoded =>
        LET b == args.bytes
        IN IF Len(b) # 30 THEN result = Err("InvalidLen")
           ELSE IF SubSeq(b, 1, 10) # << 67, 73, 69, 66, 73, 73, 70, 73, 76, 69 >>
           THEN result = Err("IllegalHeader")
           ELSE IF SubSeq(b, 27, 30) # u16_as_u32(checksum(SubSeq(b, 11, 26)))
           THEN result = Err("ChecksumFail")
           ELSE /\ result.kind = "Ok"
                /\ Header_dimensions(result.val)
                       = << SubSeq(b, 11, 18), SubSeq(b, 19, 26) >>

\* a 30-byte buffer with a wrong magic and a wrong checksum
C13_Witness ==
    /\ op = "Header::try_from(buffer)"
    /\ Len(args.bytes) = 30
    /\ SubSeq(args.bytes, 1, 10) # MAGIC_BYTES
    /\ SubSeq(args.bytes, 27, 30) # u16_as_u32(checksum(SubSeq(args.bytes, 11, 26)))
    /\ result = Err("IllegalHeader")

\* a short buffer with a wrong magic
C13_WitnessLen ==
    /\ op = "Header::try_from(buffer)"
    /\ Len(args.bytes) = 29
    /\ SubSeq(args.bytes, 1, 10) # MAGIC_BYTES
    /\ result = Err("InvalidLen")

\* the magic is right and the stored checksum is wrong
C13_WitnessChecksum ==
    /\ op = "Header::try_from(buffer)"
    /\ Len(args.bytes) = 30
    /\ SubSeq(args.bytes, 1, 10) = MAGIC_BYTES
    /\ result = Err("ChecksumFail")

\* C15: Header::new(w, h).as_bytes() is exactly 30 bytes: the magic, w and
\* h as 8 big-endian bytes each, and checksum(be8(w) ++ be8(h)) as 4
\* big-endian bytes; Header::try_from on them returns a header equal to
\* Header::new(w, h).  Header::new(20, 20) has checksum 2896 and
\* Header::new(2, 2) has checksum 2720.
C15_HeaderLayout ==
    /\ op = "Header::new" =>
          LET b == Header_as_bytes(result.val)
              sum == checksum(args.x \o args.y)
          IN /\ Len(b) = 30
             /\ SubSeq(b, 1, 10) = << 67, 73, 69, 66, 73, 73, 70, 73, 76, 69 >>
             /\ SubSeq(b, 11, 18) = args.x
             /\ SubSeq(b, 19, 26) = args.y
             /\ SubSeq(b, 27, 30) = << 0, 0, sum \div 256, sum % 256 >>
             /\ (args.x = usize(20) /\ args.y = usize(20))
                    => result.val.checksum = << 0, 0, 2896 \div 256, 2896 % 256 >>
             /\ (args.x = usize(2) /\ args.y = usize(2))
                    => result.val.checksum = << 0, 0, 2720 \div 256, 2720 % 256 >>
    /\ (HeaderDecoded /\ args.bytes = Header_as_bytes(args.header))
          => result = Ok(args.header)

C15_Witness ==
    /\ op = "Header::try_from(buffer)"
    /\ args.header = Header_new(usize(20), usize(20))
    /\ args.bytes = Header_as_bytes(args.header)
    /\ result = Ok(args.header)

\* Header::new(2, 2)
C15_WitnessNew ==
    /\ op = "Header::new"
    /\ args.x = usize(2)
    /\ args.y = usize(2)
    /\ result.val.checksum = << 0, 0, 10, 160 >>

\* the calls of Chunk::try_from, whatever made their buffer
ChunkDecoded == op \in { "Chunk::try_from", "Chunk::try_from(buffer)" }

\* C14: Chunk::try_from returns InvalidLen exactly when the length is not
\* 5; for 5 bytes it returns ChecksumFail exactly when the big-endian value
\* of bytes[3..5] is not checksum(bytes[0..3]); otherwise it returns the
\* chunk Chunk::new(bytes[0], bytes[1], bytes[2]).  So every chunk made by
\* Chunk::new or by a successful decode has checksum = checksum(colour),
\* and decoding its as_bytes() returns it.
C14_ChunkDecode ==
    /\ ChunkDecoded =>
          LET b == args.bytes
          IN /\ (result = Err("InvalidLen")) <=> (Len(b) # 5)
             /\ Len(b) = 5 =>
                   /\ (result = Err("ChecksumFail"))
                          <=> (b[4] * 256 + b[5] # checksum(SubSeq(b, 1, 3)))
                   /\ result.kind # "Err"
                          => result = Ok(Chunk_new(b[1], b[2], b[3]))
             /\ result.kind \in { "Ok", "Err" }
    /\ ((ChunkDecoded /\ result.kind = "Ok") \/ op = "Chunk::new") =>
          /\ result.val.checksum = checksum(result.val.rgb)
          /\ Chunk_try_from(Chunk_as_bytes(result.val)) = Ok(result.val)
    /\ (ChunkDecoded /\ args.bytes = Chunk_as_bytes(args.chunk))
          => result = Ok(args.chunk)

\* an intact encoding whose two checksum bytes differ is decoded
C14_Witness ==
    /\ op = "Chunk::try_from(buffer)"
    /\ args.bytes = Chunk_as_bytes(args.chunk)
    /\ args.bytes[4] # args.bytes[5]
    /\ result = Ok(args.chunk)

\* a buffer of 4 bytes
C14_WitnessLen ==
    /\ op = "Chunk::try_from(buffer)"
    /\ Len(args.bytes) = 4
    /\ result = Err("InvalidLen")

\* 5 bytes with a changed checksum byte
C14_WitnessChecksum ==
    /\ op = "Chunk::try_from(buffer)"
    /\ Len(args.bytes) = 5
    /\ SubSeq(args.bytes, 1, 3) = args.chunk.rgb
    /\ result = Err("ChecksumFail")

\* 5 bytes with a changed colour byte that are decoded all the same
C14_WitnessOther ==
    /\ op = "Chunk::try_from"
    /\ args.bytes # Chunk_as_bytes(args.chunk)
    /\ result.kind = "Ok"
    /\ result.val # args.chunk

\* C16: decoding a buffer of at least 30 bytes reports the first failure in
\* a fixed order and keeps no container on failure: an error of the header
\* (the first 30 bytes) comes before everything else; otherwise the error
\* of the first failing 5-byte record in file order (ChecksumFail, or
\* InvalidLen for a partial last record); DimensionMismatch is returned
\* only when every record decoded and the count is not width * height.
C16_FirstFailure ==
    (op = "try_from" /\ Len(args.bytes) >= 30) =>
        LET b == args.bytes
            n == (Len(b) - 30 + 4) \div 5
            record(k) == SubSeq(b, 30 + 5 * k - 4,
                                IF 30 + 5 * k <= Len(b) THEN 30 + 5 * k ELSE Len(b))
            header == Header_try_from(SubSeq(b, 1, 30))
            failing == { k \in 1..n : Chunk_try_from(record(k)).kind = "Err" }
            first == CHOOSE k \in failing : \A j \in failing : k <= j
        IN /\ header.kind = "Err" =>
                 /\ result = header
                 /\ header.val \in { "IllegalHeader", "ChecksumFail" }
           /\ (header.kind = "Ok" /\ failing # {}) =>
                 /\ result = Chunk_try_from(record(first))
                 /\ result = IF Len(record(first)) = 5 THEN Err("ChecksumFail")
                                                       ELSE Err("InvalidLen")
                 /\ Len(record(first)) # 5 => (first = n /\ (Len(b) - 30) % 5 # 0)
           /\ result = Err("DimensionMismatch") =>
                 /\ header.kind = "Ok"
                 /\ failing = {}
                 /\ LET product == usize_mul(header.val.x, header.val.y)
                    IN product.overflow \/ usize(n) # product.value
           /\ result.kind # "Ok" => file = pre

\* the magic and the last record are both damaged: IllegalHeader
C16_Witness ==
    /\ op = "try_from"
    /\ Len(args.bytes) = 40
    /\ SubSeq(args.bytes, 1, 10) # MAGIC_BYTES
    /\ Chunk_try_from(SubSeq(args.bytes, 36, 40)).kind = "Err"
    /\ result = Err("IllegalHeader")
    /\ file = pre

\* the first record has a bad checksum and the last one is partial
C16_WitnessOrder ==
    /\ op = "try_from"
    /\ Len(args.bytes) = 39
    /\ Chunk_try_from(SubSeq(args.bytes, 31, 35)) = Err("ChecksumFail")
    /\ result = Err("ChecksumFail")

\* a partial last record after sound ones
C16_WitnessPartial ==
    /\ op = "try_from"
    /\ Len(args.bytes) = 43
    /\ result = Err("InvalidLen")

\* every record decodes and the count is not the product
C16_WitnessDimension ==
    /\ op = "try_from"
    /\ Len(args.bytes) = 40
    /\ result = Err("DimensionMismatch")
    /\ file = pre

\* C17: for every container reachable from new, try_from_chunks or a
\* successful decode by push_chunk, remove_at_index and modify calls, with
\* width * height within 64 bits, decoding its as_bytes() returns the
\* container if its chunk count is width * height and DimensionMismatch
\* otherwise; and the header does not change under these three calls.
C17_DecodeOfEncoding ==
    /\ (/\ op = "try_from"
        /\ args.bytes = as_bytes(pre)
        /\ ~usize_mul(pre.header.x, pre.header.y).overflow) =>
          IF usize(Len(pre.chunks)) = usize_mul(pre.header.x, pre.header.y).value
          THEN result = Ok(pre) /\ file = pre
          ELSE result = Err("DimensionMismatch")
    /\ op \in { "push_chunk", "remove_at_index", "modify" } =>
          dimensions(file) = dimensions(pre)

\* a container with chunks whose count is not the product is rejected
C17_Witness ==
    /\ op = "try_from"
    /\ args.bytes = as_bytes(pre)
    /\ Len(pre.chunks) = 3
    /\ dimensions(pre) = << usize(1), usize(2) >>
    /\ result = Err("DimensionMismatch")

\* a container changed by the three calls and with count = product again
C17_WitnessAccepted ==
    /\ op = "try_from"
    /\ args.bytes = as_bytes(pre)
    /\ Len(pre.chunks) = 2
    /\ dimensions(pre) = << usize(2), usize(1) >>
    /\ pre.chunks[1] # pre.chunks[2]
    /\ result = Ok(pre)

\* C18: CIEBIIFILE::new(width, height) followed by push_chunk of each
\* element of a sequence s of length width * height is the container
\* try_from_chunks(width, height, s): same header, chunks and payload; and
\* each push_chunk adds one chunk at the end and its 5 encoded bytes at the
\* end of the payload.
C18_IncrementalIsBatch ==
    /\ op = "new" =>
          /\ file = [ chunks |-> << >>, bytes |-> << >>,
                      header |-> Header_new(args.x, args.y) ]
          /\ (usize_mul(args.x, args.y).value = usize(0)
              /\ ~usize_mul(args.x, args.y).overflow)
                => try_from_chunks(args.x, args.y, << >>, overflow_checks) = Ok(file)
    /\ op = "push_chunk" =>
          /\ file.chunks = Append(pre.chunks, args.chunk)
          /\ file.bytes = pre.bytes \o Chunk_as_bytes(args.chunk)
          /\ Len(file.bytes) = Len(pre.bytes) + 5
          /\ file.header = pre.header
          /\ (/\ ~usize_mul(file.header.x, file.header.y).overflow
              /\ usize(Len(file.chunks)) = usize_mul(file.header.x, file.header.y).value)
                => try_from_chunks(file.header.x, file.header.y, file.chunks,
                                   overflow_checks) = Ok(file)

\* two different chunks pushed on new(2, 1)
C18_Witness ==
    /\ op = "push_chunk"
    /\ dimensions(file) = << usize(2), usize(1) >>
    /\ Len(file.chunks) = 2
    /\ file.chunks[1] # file.chunks[2]
    /\ try_from_chunks(usize(2), usize(1), file.chunks, overflow_checks) = Ok(file)

====
